---- MODULE Spec2Model ----
(***************************************************************************)
(* Metadata resolution and reconciliation engine of kartal94/ts142.        *)
(*                                                                         *)
(*   Backend/helper/imdb.py                 primary provider client        *)
(*   Backend/helper/metadata.py             caches, gate, resolution       *)
(*   Backend/pyrofork/plugins/fix_metadata.py   batch reconciler           *)
(*                                                                         *)
(* Three specifications share the state:                                   *)
(*   SpecRes   concurrent resolutions (fetch_tv_metadata and               *)
(*             fetch_movie_metadata) over the four lookup caches;          *)
(*   SpecGate  many concurrent lookups contending for API_SEMAPHORE;       *)
(*   SpecFix   one run of fix_metadata_handler with the cancel callback.   *)
(*                                                                         *)
(* Python values are modelled as records with a field k that names their   *)
(* kind; None is [k |-> "None"].  Dictionaries are functions whose DOMAIN  *)
(* is the set of keys present.  A coroutine is cut into one action per     *)
(* suspension point.                                                       *)
(***************************************************************************)
EXTENDS Integers, Sequences, FiniteSets, TLC

VARIABLES
    IMDB_CACHE,          \* metadata.py:18
    TMDB_SEARCH_CACHE,   \* metadata.py:19
    TMDB_DETAILS_CACHE,  \* metadata.py:20
    EPISODE_CACHE,       \* metadata.py:21
    API_SEMAPHORE,       \* metadata.py:24, the semaphore's free slots
    res,                 \* the running resolutions, one record per task
    completed,           \* history: inputs of the resolutions that returned
    nStarted,            \* history: resolutions started so far
    waiting,             \* SpecGate: lookups blocked at async with API_SEMAPHORE
    calling,             \* SpecGate: lookups whose provider call is in flight
    detail,              \* imdb.py get_detail: one call, its probes and its result
    entry,               \* metadata.py metadata: one call, its file name and its result
    CANCEL_REQUESTED,    \* fix_metadata.py:11
    DONE,                \* fix_metadata.py:61
    TOTAL,               \* fix_metadata.py:60
    semaphore,           \* fix_metadata.py:73, the semaphore's free slots
    handler,             \* fix_metadata_handler: position, shard, cursor, tasks
    unit,                \* the _safe_update_movie and _safe_update_tv coroutines
    eptask,              \* the ep_task tasks of the shows
    movieStore,          \* the movie collections of the shards
    tvStore,             \* the tv collections of the shards
    reports              \* the completion reports sent (status.edit_text)

resVars == <<IMDB_CACHE, TMDB_SEARCH_CACHE, TMDB_DETAILS_CACHE, EPISODE_CACHE,
             res, completed, nStarted>>

gateVars == <<waiting, calling>>

fixVars == <<CANCEL_REQUESTED, DONE, TOTAL, semaphore, handler, unit, eptask,
             movieStore, tvStore, reports>>

----------------------------------------------------------------------------
(* Bounds of the model *)

NRes == 2        \* resolutions that may run concurrently
MaxRes == 2      \* resolutions started in one behaviour
NLookups == 14   \* SpecGate: lookups that may be pending at once
CONCURRENCY == 1       \* fix_metadata.py:72 sets 20; the model runs it scaled down
MovieCounts == <<2 * CONCURRENCY, 1>>   \* movie documents in each shard: a full chunk, then one
ShowCounts == <<1, 1>>    \* tv documents in each shard (db.dbs["storage_i"]["tv"])
EpisodesPerShow == 2   \* episodes of each show (in one season)

Procs == 1..NRes

Titles == {"X"}
Years == {2010}
Seasons == {1}
Episodes == {1}
ImdbIds == {1}          \* n stands for the identifier "tt<n>"
TmdbIds == {7}

----------------------------------------------------------------------------
(* Python values *)

None == [k |-> "None"]

Truthy(v) == v.k # "None"

\* an identifier string: "tt<n>" when tt, the bare digits otherwise
IdStr(tt, n) == [k |-> "str", tt |-> tt, n |-> n]

\* an integer identifier of the secondary provider
IdInt(n) == [k |-> "int", n |-> n]

\* default_id.startswith("tt") for a non-empty default_id
HintIsImdb_Never(default_id) == FALSE

HintIsImdb(default_id) == Truthy(default_id) /\ default_id.tt

\* imdb_id.replace("tt", "")
ReplaceTT(id) == IdStr(FALSE, id.n)

Hints == {None} \cup {IdStr(TRUE, n) : n \in ImdbIds} \cup {IdStr(FALSE, n) : n \in TmdbIds}

\* the inputs of fetch_tv_metadata and fetch_movie_metadata
TvReqs == [kind : {"tv"}, title : Titles, year : Years, season : Seasons,
           episode : Episodes, default_id : Hints]

MovieReqs == [kind : {"movie"}, title : Titles, year : Years, season : {0},
              episode : {0}, default_id : Hints]

Reqs == TvReqs \cup MovieReqs

----------------------------------------------------------------------------
(* Dictionaries *)

Has(d, key) == key \in DOMAIN d

Put(d, key, v) == [x \in (DOMAIN d) \cup {key} |-> IF x = key THEN v ELSE d[x]]

EmptyDict == << >>

----------------------------------------------------------------------------
(* Provider answers.  A call yields a payload, yields nothing, or raises.  *)

Raised == [k |-> "Raised"]

\* imdb.py search_title: {'id': ...} or None; _get_client() is awaited
\* outside the try block, so an error of the client propagates
SearchTitleAnswers == {[k |-> "imdb_hit", id |-> IdStr(TRUE, n)] : n \in ImdbIds}
                          \cup {None, Raised}

\* imdb.py get_detail: the meta dictionary or None, or the client's error
GetDetailAnswers(imdb_id) == {[k |-> "imdb", id |-> imdb_id], None, Raised}

\* imdb.py get_season: the episode dictionary or None, or the client's error
GetSeasonAnswers(imdb_id, s, e) ==
    {[k |-> "imdb_ep", id |-> imdb_id, season |-> s, episode |-> e], None, Raised}

\* tmdb.search().movies / .tv: a list of results (possibly empty) or an error
TmdbSearchAnswers(type_) ==
    {[k |-> "results", first |-> [k |-> "tmdb_res", id |-> IdInt(n), type |-> type_]]
        : n \in TmdbIds} \cup {[k |-> "results", first |-> None], Raised}

\* tmdb.tv(id).details / tmdb.movie(id).details: the details object or an error
TmdbDetailsAnswers(id, type_) == {[k |-> "tmdb", id |-> id, type |-> type_], Raised}

\* tmdb.episode(tv_id, s, e).details(): the episode object or an error
TmdbEpisodeAnswers(tv_id, s, e) ==
    {[k |-> "tmdb_ep", id |-> tv_id, season |-> s, episode |-> e], Raised}

----------------------------------------------------------------------------
(* The records the resolution returns (metadata.py:239-301, 334-380).      *)
(* show holds the payload every show-level field is read from, episode the *)
(* payload every episode-level field is read from.                         *)

DefaultEpisode == [k |-> "default"]

EpisodePart(ep_details) == IF Truthy(ep_details) THEN ep_details ELSE DefaultEpisode

TmdbShaped(details, ep_details, r) ==
    [k |-> "meta", shape |-> "tmdb",
     tmdb_id |-> details.id,
     imdb_id |-> [k |-> "external_ids", of |-> details.id],
     media_type |-> r.kind,
     show |-> details,
     season_number |-> r.season, episode_number |-> r.episode,
     episode |-> IF r.kind = "tv" THEN EpisodePart(ep_details) ELSE DefaultEpisode]

ImdbShaped(details, ep_details, r) ==
    [k |-> "meta", shape |-> "imdb",
     tmdb_id |-> ReplaceTT(details.id),
     imdb_id |-> details.id,
     media_type |-> r.kind,
     show |-> details,
     season_number |-> r.season, episode_number |-> r.episode,
     episode |-> IF r.kind = "tv" THEN EpisodePart(ep_details) ELSE DefaultEpisode]

\* metadata.py:239-301
TvReturn(use_tmdb, tv_details, ep_details, r) ==
    IF use_tmdb /\ Truthy(tv_details) THEN TmdbShaped(tv_details, ep_details, r)
    ELSE IF ~Truthy(tv_details) THEN None
    ELSE ImdbShaped(tv_details, ep_details, r)

\* metadata.py:334-380: movie_details.get on None raises AttributeError
MovieReturn(use_tmdb, movie_details, r) ==
    IF use_tmdb /\ Truthy(movie_details) THEN TmdbShaped(movie_details, None, r)
    ELSE IF ~Truthy(movie_details) THEN Raised
    ELSE ImdbShaped(movie_details, None, r)

\* metadata.py:224 and 321: if not tv_details / if not movie_details
NeedsFallback_Always(details) == TRUE

NeedsFallback(details) == ~Truthy(details)

\* metadata.py:237: ep_details = await _tmdb_episode_details(...)
AssignEpisode_KeepOld(old, new) == IF Truthy(old) THEN old ELSE new

AssignEpisode(old, new) == new

----------------------------------------------------------------------------
(* One resolution task *)

IdleProc ==
    [pc |-> "idle", req |-> None, imdb_id |-> None, details |-> None,
     ep_details |-> None, use_tmdb |-> FALSE, tmdb_result |-> None,
     result |-> None, log |-> << >>, after |-> FALSE]

Ev(op, via, out) == [op |-> op, via |-> via, out |-> out]

OutOf(v) == IF v = Raised THEN "raise" ELSE IF Truthy(v) THEN "hit" ELSE "absent"

Logged(r, op, via, v) == [r EXCEPT !.log = Append(@, Ev(op, via, OutOf(v)))]

\* cache keys
ImdbType(r) == IF r.kind = "tv" THEN "tvSeries" ELSE "movie"

\* f"imdb::{type_}::{title}", the title being f"{title} {year}" for a movie
\* with a year
ImdbSearchKey(r) == <<"imdb", ImdbType(r), r.title, IF r.kind = "movie" THEN r.year ELSE 0>>

ImdbDetailKey(imdb_id) == <<"tt", imdb_id.n>>

\* f"{imdb_id}::{season}::{episode}"
ImdbEpisodeKey(imdb_id, s, e) == <<"str", imdb_id.n, s, e>>

\* f"tmdb_search::{type_}::{title}::{year}", year being None for tv
TmdbSearchKey(r) == <<r.kind, r.title, IF r.kind = "movie" THEN r.year ELSE 0>>

\* the bare id, for tv and for movie details alike
TmdbDetailsKey(id) == <<id.n>>

\* the tuple (tv_id, season, episode)
TmdbEpisodeKey(tv_id, s, e) == <<"tup", tv_id.n, s, e>>

\* the end of the function: the return statement, or the error it raises
Finish(r) ==
    [r EXCEPT !.pc = "done",
              !.result = IF r.req.kind = "tv"
                         THEN TvReturn(r.use_tmdb, r.details, r.ep_details, r.req)
                         ELSE MovieReturn(r.use_tmdb, r.details, r.req)]

\* metadata.py:223-226 and 320-323, after the primary provider was tried
AfterPrimary(r) ==
    IF NeedsFallback(r.details)
    THEN [r EXCEPT !.use_tmdb = TRUE, !.pc = "tmdb_search"]
    ELSE Finish(r)

\* metadata.py:201-205 and 305-309, with the identifier the search gave
AfterImdbSearch(r, imdb_id) ==
    IF Truthy(imdb_id)
    THEN [r EXCEPT !.imdb_id = imdb_id, !.pc = "imdb_detail"]
    ELSE AfterPrimary([r EXCEPT !.imdb_id = imdb_id])

\* metadata.py:212-213 and 316-320, with the record the detail lookup gave
AfterImdbDetail(r, details) ==
    IF r.req.kind = "tv"
    THEN [r EXCEPT !.details = details, !.pc = "imdb_episode"]
    ELSE AfterPrimary([r EXCEPT !.details = details])

\* metadata.py:227-232 and 324-329, with the first result of the search
AfterTmdbSearch(r, tmdb_result) ==
    IF ~Truthy(tmdb_result)
    THEN [r EXCEPT !.tmdb_result = tmdb_result, !.pc = "done", !.result = None]
    ELSE [r EXCEPT !.tmdb_result = tmdb_result, !.pc = "tmdb_detail"]

\* metadata.py:232-237 (tv) and 329-335 (movie)
AfterTmdbDetail(r, details) ==
    IF r.req.kind = "tv"
    THEN IF ~Truthy(details)
         THEN [r EXCEPT !.details = details, !.pc = "done", !.result = None]
         ELSE [r EXCEPT !.details = details, !.pc = "tmdb_episode"]
    ELSE Finish([r EXCEPT !.details = details])

\* metadata.py:237-240
AfterTmdbEpisode(r, ep_details) ==
    Finish([r EXCEPT !.ep_details = AssignEpisode(r.ep_details, ep_details)])

----------------------------------------------------------------------------
(* Actions of the resolution engine *)

Set(p, r) == res' = [res EXCEPT ![p] = r]

CacheVars == <<IMDB_CACHE, TMDB_SEARCH_CACHE, TMDB_DETAILS_CACHE, EPISODE_CACHE>>

\* metadata.py:200-202 and 304-306: the function is entered; a hint that is
\* a primary-provider identifier replaces the search
Start(p, r) ==
    /\ res[p].pc = "idle"
    /\ \A q \in Procs : q < p => res[q].pc # "idle"
    /\ nStarted < MaxRes
    /\ nStarted' = nStarted + 1
    /\ LET r0 == [IdleProc EXCEPT !.req = r, !.after = (r \in completed)]
       IN  Set(p, IF HintIsImdb(r.default_id)
                  THEN [r0 EXCEPT !.imdb_id = r.default_id, !.pc = "imdb_detail"]
                  ELSE [r0 EXCEPT !.pc = "imdb_search"])
    /\ UNCHANGED <<CacheVars, API_SEMAPHORE, completed, gateVars, detail, entry, fixVars>>

PrimaryOps == {"imdb_search", "imdb_detail", "imdb_episode"}

SecondaryOps == {"tmdb_search", "tmdb_detail", "tmdb_episode"}

Ops == PrimaryOps \cup SecondaryOps

\* async with semaphore, entered: a free slot is taken.  With no free slot
\* the task waits, and is admitted once a holder has left.
Enter(sem) == sem > 0 /\ sem' = sem - 1

Leave_KeepsSlot(sem) == sem' = sem

\* async with semaphore, left (by return or by an error): the slot is freed
Leave(sem) == sem' = sem + 1

\* the provider call of every lookup is made inside async with API_SEMAPHORE
\* (metadata.py:58, 73, 93, 106, 120, 210, 217, 314)
Gated_PrimaryOnly(op) == op \in PrimaryOps

Gated(op) == TRUE

EnterGate(op) == IF Gated(op) THEN Enter(API_SEMAPHORE) ELSE UNCHANGED API_SEMAPHORE

LeaveGate(op) == IF Gated(op) THEN Leave(API_SEMAPHORE) ELSE UNCHANGED API_SEMAPHORE

CallPcs == {"imdb_search_call", "imdb_detail_call", "imdb_episode_call",
            "tmdb_search_call", "tmdb_detail_call", "tmdb_episode_call"}

\* metadata.py:52-56: safe_imdb_search probes IMDB_CACHE
safe_imdb_search_probe(p) ==
    LET r == res[p]
        key == ImdbSearchKey(r.req)
    IN  /\ r.pc = "imdb_search"
        /\ IF Has(IMDB_CACHE, key)
           THEN /\ Set(p, AfterImdbSearch(Logged(r, "imdb_search", "cache", IMDB_CACHE[key]),
                                            IMDB_CACHE[key]))
                /\ UNCHANGED API_SEMAPHORE
           ELSE /\ EnterGate("imdb_search")
                /\ Set(p, [r EXCEPT !.pc = "imdb_search_call"])
        /\ UNCHANGED <<CacheVars, completed, nStarted, gateVars, detail, entry, fixVars>>

\* metadata.py:57-65: search_title returns or raises; the slot is released;
\* the identifier (or None) is stored unless the call raised
safe_imdb_search_return(p) ==
    LET r == res[p]
        key == ImdbSearchKey(r.req)
    IN  /\ r.pc = "imdb_search_call"
        /\ LeaveGate("imdb_search")
        /\ \E a \in SearchTitleAnswers :
             LET imdb_id == IF a = Raised \/ ~Truthy(a) THEN None ELSE a.id
             IN  /\ IMDB_CACHE' = IF a = Raised THEN IMDB_CACHE
                                  ELSE Put(IMDB_CACHE, key, imdb_id)
                 /\ Set(p, AfterImdbSearch(Logged(r, "imdb_search", "call", a), imdb_id))
        /\ UNCHANGED <<TMDB_SEARCH_CACHE, TMDB_DETAILS_CACHE, EPISODE_CACHE,
                       completed, nStarted, gateVars, detail, entry, fixVars>>

\* metadata.py:205-208 and 309-312: the detail record is probed in IMDB_CACHE
imdb_detail_probe(p) ==
    LET r == res[p]
        key == ImdbDetailKey(r.imdb_id)
    IN  /\ r.pc = "imdb_detail"
        /\ IF Has(IMDB_CACHE, key)
           THEN /\ Set(p, AfterImdbDetail(Logged(r, "imdb_detail", "cache", IMDB_CACHE[key]),
                                            IMDB_CACHE[key]))
                /\ UNCHANGED API_SEMAPHORE
           ELSE /\ EnterGate("imdb_detail")
                /\ Set(p, [r EXCEPT !.pc = "imdb_detail_call"])
        /\ UNCHANGED <<CacheVars, completed, nStarted, gateVars, detail, entry, fixVars>>

\* metadata.py:210-212, 220-221 and 314-318: get_detail returns and its
\* result is stored, or it raises and the except clause ends the attempt
imdb_detail_return(p) ==
    LET r == res[p]
        key == ImdbDetailKey(r.imdb_id)
    IN  /\ r.pc = "imdb_detail_call"
        /\ LeaveGate("imdb_detail")
        /\ \E a \in GetDetailAnswers(r.imdb_id) :
             IF a = Raised
             THEN /\ IMDB_CACHE' = IMDB_CACHE
                  /\ Set(p, AfterPrimary(Logged(r, "imdb_detail", "call", a)))
             ELSE /\ IMDB_CACHE' = Put(IMDB_CACHE, key, a)
                  /\ Set(p, AfterImdbDetail(Logged(r, "imdb_detail", "call", a), a))
        /\ UNCHANGED <<TMDB_SEARCH_CACHE, TMDB_DETAILS_CACHE, EPISODE_CACHE,
                       completed, nStarted, gateVars, detail, entry, fixVars>>

\* metadata.py:213-215: the episode is probed in EPISODE_CACHE
imdb_episode_probe(p) ==
    LET r == res[p]
        key == ImdbEpisodeKey(r.imdb_id, r.req.season, r.req.episode)
    IN  /\ r.pc = "imdb_episode"
        /\ IF Has(EPISODE_CACHE, key)
           THEN /\ Set(p, AfterPrimary([Logged(r, "imdb_episode", "cache", EPISODE_CACHE[key])
                                             EXCEPT !.ep_details = EPISODE_CACHE[key]]))
                /\ UNCHANGED API_SEMAPHORE
           ELSE /\ EnterGate("imdb_episode")
                /\ Set(p, [r EXCEPT !.pc = "imdb_episode_call"])
        /\ UNCHANGED <<CacheVars, completed, nStarted, gateVars, detail, entry, fixVars>>

\* metadata.py:217-221: get_season returns and its result is stored, or it
\* raises and the except clause ends the attempt
imdb_episode_return(p) ==
    LET r == res[p]
        key == ImdbEpisodeKey(r.imdb_id, r.req.season, r.req.episode)
    IN  /\ r.pc = "imdb_episode_call"
        /\ LeaveGate("imdb_episode")
        /\ \E a \in GetSeasonAnswers(r.imdb_id, r.req.season, r.req.episode) :
             IF a = Raised
             THEN /\ EPISODE_CACHE' = EPISODE_CACHE
                  /\ Set(p, AfterPrimary(Logged(r, "imdb_episode", "call", a)))
             ELSE /\ EPISODE_CACHE' = Put(EPISODE_CACHE, key, a)
                  /\ Set(p, AfterPrimary([Logged(r, "imdb_episode", "call", a)
                                             EXCEPT !.ep_details = a]))
        /\ UNCHANGED <<IMDB_CACHE, TMDB_SEARCH_CACHE, TMDB_DETAILS_CACHE,
                       completed, nStarted, gateVars, detail, entry, fixVars>>

\* metadata.py:67-71: safe_tmdb_search probes TMDB_SEARCH_CACHE
safe_tmdb_search_probe(p) ==
    LET r == res[p]
        key == TmdbSearchKey(r.req)
    IN  /\ r.pc = "tmdb_search"
        /\ IF Has(TMDB_SEARCH_CACHE, key)
           THEN /\ Set(p, AfterTmdbSearch(Logged(r, "tmdb_search", "cache", TMDB_SEARCH_CACHE[key]),
                                            TMDB_SEARCH_CACHE[key]))
                /\ UNCHANGED API_SEMAPHORE
           ELSE /\ EnterGate("tmdb_search")
                /\ Set(p, [r EXCEPT !.pc = "tmdb_search_call"])
        /\ UNCHANGED <<CacheVars, completed, nStarted, gateVars, detail, entry, fixVars>>

\* metadata.py:72-87: the first result, or None for an empty list or an
\* error, is stored and returned
safe_tmdb_search_return(p) ==
    LET r == res[p]
        key == TmdbSearchKey(r.req)
    IN  /\ r.pc = "tmdb_search_call"
        /\ LeaveGate("tmdb_search")
        /\ \E a \in TmdbSearchAnswers(r.req.kind) :
             LET first == IF a = Raised THEN None ELSE a.first
             IN  /\ TMDB_SEARCH_CACHE' = Put(TMDB_SEARCH_CACHE, key, first)
                 /\ Set(p, AfterTmdbSearch(
                              Logged(r, "tmdb_search", "call",
                                     IF a = Raised THEN Raised ELSE first), first))
        /\ UNCHANGED <<IMDB_CACHE, TMDB_DETAILS_CACHE, EPISODE_CACHE,
                       completed, nStarted, gateVars, detail, entry, fixVars>>

\* metadata.py:89-91 and 102-104: _tmdb_tv_details and _tmdb_movie_details
\* probe TMDB_DETAILS_CACHE under the bare id
tmdb_details_probe(p) ==
    LET r == res[p]
        key == TmdbDetailsKey(r.tmdb_result.id)
    IN  /\ r.pc = "tmdb_detail"
        /\ IF Has(TMDB_DETAILS_CACHE, key)
           THEN /\ Set(p, AfterTmdbDetail(Logged(r, "tmdb_detail", "cache", TMDB_DETAILS_CACHE[key]),
                                            TMDB_DETAILS_CACHE[key]))
                /\ UNCHANGED API_SEMAPHORE
           ELSE /\ EnterGate("tmdb_detail")
                /\ Set(p, [r EXCEPT !.pc = "tmdb_detail_call"])
        /\ UNCHANGED <<CacheVars, completed, nStarted, gateVars, detail, entry, fixVars>>

\* metadata.py:92-100 and 105-113: the details, or None for an error, are
\* stored and returned
tmdb_details_return(p) ==
    LET r == res[p]
        key == TmdbDetailsKey(r.tmdb_result.id)
    IN  /\ r.pc = "tmdb_detail_call"
        /\ LeaveGate("tmdb_detail")
        /\ \E a \in TmdbDetailsAnswers(r.tmdb_result.id, r.req.kind) :
             LET details == IF a = Raised THEN None ELSE a
             IN  /\ TMDB_DETAILS_CACHE' = Put(TMDB_DETAILS_CACHE, key, details)
                 /\ Set(p, AfterTmdbDetail(Logged(r, "tmdb_detail", "call", a), details))
        /\ UNCHANGED <<IMDB_CACHE, TMDB_SEARCH_CACHE, EPISODE_CACHE,
                       completed, nStarted, gateVars, detail, entry, fixVars>>

\* metadata.py:115-118: _tmdb_episode_details probes EPISODE_CACHE
tmdb_episode_probe(p) ==
    LET r == res[p]
        key == TmdbEpisodeKey(r.tmdb_result.id, r.req.season, r.req.episode)
    IN  /\ r.pc = "tmdb_episode"
        /\ IF Has(EPISODE_CACHE, key)
           THEN /\ Set(p, AfterTmdbEpisode(Logged(r, "tmdb_episode", "cache", EPISODE_CACHE[key]),
                                             EPISODE_CACHE[key]))
                /\ UNCHANGED API_SEMAPHORE
           ELSE /\ EnterGate("tmdb_episode")
                /\ Set(p, [r EXCEPT !.pc = "tmdb_episode_call"])
        /\ UNCHANGED <<CacheVars, completed, nStarted, gateVars, detail, entry, fixVars>>

\* metadata.py:119-126: the episode, or None for an error, is stored and
\* returned
tmdb_episode_return(p) ==
    LET r == res[p]
        key == TmdbEpisodeKey(r.tmdb_result.id, r.req.season, r.req.episode)
    IN  /\ r.pc = "tmdb_episode_call"
        /\ LeaveGate("tmdb_episode")
        /\ \E a \in TmdbEpisodeAnswers(r.tmdb_result.id, r.req.season, r.req.episode) :
             LET ep == IF a = Raised THEN None ELSE a
             IN  /\ EPISODE_CACHE' = Put(EPISODE_CACHE, key, ep)
                 /\ Set(p, AfterTmdbEpisode(Logged(r, "tmdb_episode", "call", a), ep))
        /\ UNCHANGED <<IMDB_CACHE, TMDB_SEARCH_CACHE, TMDB_DETAILS_CACHE,
                       completed, nStarted, gateVars, detail, entry, fixVars>>

\* the caller receives the result (or the error) and the task ends
ReturnToCaller(p) ==
    /\ res[p].pc = "done"
    /\ completed' = completed \cup {res[p].req}
    /\ Set(p, IdleProc)
    /\ UNCHANGED <<CacheVars, API_SEMAPHORE, nStarted, gateVars, detail, entry, fixVars>>

\* API_SEMAPHORE = asyncio.Semaphore(12)
ApiSlots == 12

InitRes ==
    /\ IMDB_CACHE = EmptyDict
    /\ TMDB_SEARCH_CACHE = EmptyDict
    /\ TMDB_DETAILS_CACHE = EmptyDict
    /\ EPISODE_CACHE = EmptyDict
    /\ API_SEMAPHORE = ApiSlots
    /\ res = [p \in Procs |-> IdleProc]
    /\ completed = {}
    /\ nStarted = 0

InitGate ==
    /\ waiting = [op \in Ops |-> 0]
    /\ calling = [op \in Ops |-> 0]

NextRes ==
    \E p \in Procs :
        \/ \E r \in Reqs : Start(p, r)
        \/ safe_imdb_search_probe(p)
        \/ safe_imdb_search_return(p)
        \/ imdb_detail_probe(p)
        \/ imdb_detail_return(p)
        \/ imdb_episode_probe(p)
        \/ imdb_episode_return(p)
        \/ safe_tmdb_search_probe(p)
        \/ safe_tmdb_search_return(p)
        \/ tmdb_details_probe(p)
        \/ tmdb_details_return(p)
        \/ tmdb_episode_probe(p)
        \/ tmdb_episode_return(p)
        \/ ReturnToCaller(p)

----------------------------------------------------------------------------
(* Many lookups at the gate.  Every lookup that missed its cache goes       *)
(* through the same async with API_SEMAPHORE block; here the lookups are    *)
(* counted per operation instead of being followed one by one.              *)

Sum(f) == f["imdb_search"] + f["imdb_detail"] + f["imdb_episode"]
            + f["tmdb_search"] + f["tmdb_detail"] + f["tmdb_episode"]

\* a lookup of kind op misses its cache and reaches async with API_SEMAPHORE:
\* it is admitted at once when a slot is free and waits otherwise
LookupMisses(op) ==
    /\ Sum(waiting) + Sum(calling) < NLookups
    /\ IF Gated(op) /\ API_SEMAPHORE = 0
       THEN /\ waiting' = [waiting EXCEPT ![op] = @ + 1]
            /\ UNCHANGED <<calling, API_SEMAPHORE>>
       ELSE /\ EnterGate(op)
            /\ calling' = [calling EXCEPT ![op] = @ + 1]
            /\ UNCHANGED waiting
    /\ UNCHANGED <<resVars, detail, entry, fixVars>>

\* a waiting lookup is admitted once a slot is free
LookupAdmitted(op) ==
    /\ waiting[op] > 0
    /\ EnterGate(op)
    /\ waiting' = [waiting EXCEPT ![op] = @ - 1]
    /\ calling' = [calling EXCEPT ![op] = @ + 1]
    /\ UNCHANGED <<resVars, detail, entry, fixVars>>

\* the provider call returns or raises and the block is left
LookupReturns(op) ==
    /\ calling[op] > 0
    /\ LeaveGate(op)
    /\ calling' = [calling EXCEPT ![op] = @ - 1]
    /\ UNCHANGED <<waiting, resVars, detail, entry, fixVars>>

NextGate ==
    \E op \in Ops :
        \/ LookupMisses(op)
        \/ LookupAdmitted(op)
        \/ LookupReturns(op)

----------------------------------------------------------------------------
(* The record store (Backend.db): NShards shards, each with a movie and a   *)
(* tv collection.  Documents are numbered in cursor order, shard by shard.  *)

\* db.current_db_index
NShards == Len(MovieCounts)

\* the documents in the shards before shard i
RECURSIVE Before(_, _)
Before(counts, i) == IF i = 1 THEN 0 ELSE Before(counts, i - 1) + counts[i - 1]

Movies == 1..Before(MovieCounts, NShards + 1)

Shows == 1..Before(ShowCounts, NShards + 1)

EpNums == 1..EpisodesPerShow

ShardAt(counts, n) ==
    CHOOSE i \in 1..Len(counts) : Before(counts, i) < n /\ n <= Before(counts, i + 1)

MovieShard(m) == ShardAt(MovieCounts, m)

ShowShard(t) == ShardAt(ShowCounts, t)

MovieUnit(m) == <<"movie", m>>

TvUnit(t) == <<"tv", t>>

Units == {MovieUnit(m) : m \in Movies} \cup {TvUnit(t) : t \in Shows}

EpUnits == Shows \X EpNums

\* a stored field: "None" stands for None (or a missing key), "" for an
\* empty value, "v" for a non-empty one
FieldTruthy(x) == x \notin {"None", ""}

\* the stored cast, description, genres and logo of a document
StoredBody(cast, description, genres, logo) ==
    [k |-> "stored", cast |-> cast, description |-> description, genres |-> genres,
     logo |-> logo]

\* the stored overview, released and episode_backdrop of an episode
StoredEpisode(overview, released, episode_backdrop) ==
    [k |-> "stored_ep", overview |-> overview, released |-> released,
     episode_backdrop |-> episode_backdrop]

\* the bodies a document may hold when the run begins: every field filled,
\* or one of: an empty logo, no logo, an empty cast
Filled == StoredBody("v", "v", "v", "v")

Unfilled == <<StoredBody("v", "v", "v", ""), StoredBody("v", "v", "v", "None"),
              StoredBody("", "v", "v", "v")>>

\* the n-th document of the store is filled or lacks one field, by turns
Bodies(n) == {Filled, Unfilled[((n - 1) % Len(Unfilled)) + 1]}

\* the episodes it may hold: every field filled, or no overview
StoredEpisodes == {StoredEpisode("v", "v", "v"), StoredEpisode("None", "v", "v")}

\* the documents the store may hold when the run begins; tmdb_id is unique;
\* only the first movie may lack a field, and only the first show has
\* episodes that lack one
MovieDocs(m) == {[tmdb_id |-> IdInt(100 + m), imdb_id |-> None, body |-> b]
                    : b \in IF m = 1 THEN Bodies(m) ELSE {Filled}}

TvDocs(t) == {[tmdb_id |-> IdInt(200 + t), imdb_id |-> None, body |-> b,
               episodes |-> eps]
                 : b \in Bodies(Len(Unfilled) + 1 - t),
                   eps \in [EpNums -> IF t = 1 THEN StoredEpisodes
                                      ELSE {StoredEpisode("v", "v", "v")}]}

\* fix_metadata.py:85 and 138: cast and description and genres and
\* logo not in [None, ""]
HasMeta_Never(doc) == FALSE

HasMeta(doc) ==
    /\ doc.body.k = "stored"
    /\ FieldTruthy(doc.body.cast)
    /\ FieldTruthy(doc.body.description)
    /\ FieldTruthy(doc.body.genres)
    /\ doc.body.logo \notin {"None", ""}

\* fix_metadata.py:182: overview and released and episode_backdrop
EpisodeComplete(ep) ==
    /\ ep.k = "stored_ep"
    /\ FieldTruthy(ep.overview)
    /\ FieldTruthy(ep.released)
    /\ FieldTruthy(ep.episode_backdrop)

Min(S) == CHOOSE x \in S : \A y \in S : x <= y

MovieUpdateOne_Many(store, i, key, set) ==
    [m \in Movies |->
        IF MovieShard(m) = i
        THEN [store[m] EXCEPT !.tmdb_id = set.tmdb_id, !.imdb_id = set.imdb_id,
                              !.body = set.body]
        ELSE store[m]]

\* collection.update_one({"tmdb_id": key}, {"$set": {...}}) on the movie
\* collection of shard i: the first document with that tmdb_id is rewritten
MovieUpdateOne(store, i, key, set) ==
    LET hits == {m \in Movies : MovieShard(m) = i /\ store[m].tmdb_id = key}
    IN  IF hits = {} THEN store
        ELSE [store EXCEPT ![Min(hits)] =
                 [@ EXCEPT !.tmdb_id = set.tmdb_id, !.imdb_id = set.imdb_id,
                           !.body = set.body]]

\* the same on the tv collection of shard i
TvUpdateOne(store, i, key, set) ==
    LET hits == {t \in Shows : ShowShard(t) = i /\ store[t].tmdb_id = key}
    IN  IF hits = {} THEN store
        ELSE [store EXCEPT ![Min(hits)] =
                 [@ EXCEPT !.tmdb_id = set.tmdb_id, !.imdb_id = set.imdb_id,
                           !.body = set.body]]

\* update_one with array_filters on (season_number, episode_number): the
\* episode e of the first document with that tmdb_id is rewritten
EpisodeUpdateOne(store, i, key, e, set) ==
    LET hits == {t \in Shows : ShowShard(t) = i /\ store[t].tmdb_id = key}
    IN  IF hits = {} THEN store
        ELSE [store EXCEPT ![Min(hits)].episodes[e] = set]

----------------------------------------------------------------------------
(* What the reconciler gets back from the resolution engine *)

\* the call fetch_movie_metadata(title, None, year, None, None) and
\* fetch_tv_metadata(title, s, e, None, year, None, None)
FixReq(kind, s, e) ==
    [kind |-> kind, title |-> "X", year |-> 2010, season |-> s, episode |-> e,
     default_id |-> None]

ImdbDetails == {a \in GetDetailAnswers(IdStr(TRUE, 1)) : a # Raised /\ Truthy(a)}

TmdbDetails(doc, kind) ==
    {a \in TmdbDetailsAnswers(doc.tmdb_id, kind) \cup TmdbDetailsAnswers(IdInt(7), kind)
        : a # Raised}

\* every way fetch_movie_metadata ends: None, a record, or the AttributeError
MovieResults(doc) ==
    {None}
      \cup {MovieReturn(FALSE, d, FixReq("movie", 0, 0)) : d \in ImdbDetails}
      \cup {MovieReturn(TRUE, d, FixReq("movie", 0, 0)) : d \in TmdbDetails(doc, "movie") \cup {None}}

\* every way fetch_tv_metadata ends: None, a record, or an error raised
\* while the record is built from the payloads (metadata.py:250-271, 277-301)
TvResults(doc, s, e) ==
    {None, Raised}
      \cup {TvReturn(FALSE, d, ep, FixReq("tv", s, e))
              : d \in ImdbDetails,
                ep \in {a \in GetSeasonAnswers(IdStr(TRUE, 1), s, e) : a # Raised}}
      \cup UNION {{TvReturn(TRUE, d, ep, FixReq("tv", s, e))
                      : ep \in {None} \cup {a \in TmdbEpisodeAnswers(d.id, s, e) : a # Raised}}
                   : d \in TmdbDetails(doc, "tv")}

\* fix_metadata.py:104-114 and 153-163: the fields the update sets
ShowSet(meta) == [tmdb_id |-> meta.tmdb_id, imdb_id |-> meta.imdb_id, body |-> meta.show]

\* fix_metadata.py:200-204: overview, released and episode_backdrop
EpisodeSet(meta) == meta.episode

----------------------------------------------------------------------------
(* The coroutines of one run of fix_metadata_handler.  The operators below  *)
(* run a coroutine from one suspension point to the next on a record st of  *)
(* the state they touch: the units, the semaphore, DONE and the ep tasks.   *)

NoUnit == [pc |-> "none", doc |-> None, set |-> None, tasks |-> << >>, wave |-> 0,
           out |-> "none"]

NoEpTask == [pc |-> "none", set |-> None, out |-> "none"]

Cur == [unit |-> unit, sem |-> semaphore, done |-> DONE, ep |-> eptask]

Commit(st) ==
    /\ unit' = st.unit
    /\ semaphore' = st.sem
    /\ DONE' = st.done
    /\ eptask' = st.ep

Counted_KeepsSlot(st, u, out) ==
    [st EXCEPT !.done = @ + 1,
               !.unit[u].pc = "finished", !.unit[u].set = None, !.unit[u].out = out]

Counted_SkipsFailed(st, u, out) ==
    [st EXCEPT !.done = IF out \in {"raised", "update_failed"} THEN @ ELSE @ + 1,
               !.sem = @ + 1,
               !.unit[u].pc = "finished", !.unit[u].set = None, !.unit[u].out = out]

\* DONE += 1 and the end of the async with semaphore block
Counted(st, u, out) ==
    [st EXCEPT !.done = @ + 1, !.sem = @ + 1,
               !.unit[u].pc = "finished", !.unit[u].set = None, !.unit[u].out = out]

\* the episodes of the document, in order
EpSeq == [e \in EpNums |-> e]

\* fix_metadata.py:167-224 up to the first await: the ep_task tasks are
\* created for the incomplete episodes (none once CANCEL_REQUESTED is set)
\* and the first wave is awaited; with no task the show is counted
EpisodeStage(st, u, cancel, out) ==
    LET doc == st.unit[u].doc
        Incomplete(e) == ~EpisodeComplete(doc.episodes[e])
        tasks == IF cancel THEN << >> ELSE SelectSeq(EpSeq, Incomplete)
        mine == {<<u[2], tasks[i]>> : i \in 1..Len(tasks)}
    IN  IF tasks = << >>
        THEN Counted(st, u, out)
        ELSE [st EXCEPT !.unit[u].pc = "wave", !.unit[u].tasks = tasks,
                        !.unit[u].wave = 0, !.unit[u].set = None, !.unit[u].out = out,
                        !.ep = [x \in EpUnits |->
                                   IF x \in mine THEN [NoEpTask EXCEPT !.pc = "created"]
                                   ELSE st.ep[x]]]

\* fix_metadata.py:84-93 and 132-140, inside the semaphore: a complete movie
\* is counted at once, a show with its metadata goes on to its episodes,
\* anything else calls the resolution engine
Work(st, u, cancel) ==
    LET doc == st.unit[u].doc
    IN  IF u[1] = "movie"
        THEN IF HasMeta(doc) THEN Counted(st, u, "complete")
             ELSE [st EXCEPT !.unit[u].pc = "fetch"]
        ELSE IF HasMeta(doc) THEN EpisodeStage(st, u, cancel, "complete")
             ELSE [st EXCEPT !.unit[u].pc = "fetch"]

\* fix_metadata.py:80-83 and 128-131: the coroutine starts: it returns when
\* CANCEL_REQUESTED is set, else it enters the semaphore or waits for it
StartOne(st, u, cancel) ==
    IF cancel THEN [st EXCEPT !.unit[u].pc = "returned"]
    ELSE IF st.sem = 0 THEN [st EXCEPT !.unit[u].pc = "waiting"]
    ELSE Work([st EXCEPT !.sem = @ - 1], u, cancel)

\* asyncio.gather(*tasks): the coroutines start in order, each running to
\* its first suspension
RECURSIVE StartAll(_, _, _)
StartAll(st, tasks, cancel) ==
    IF tasks = << >> THEN st
    ELSE StartAll(StartOne(st, Head(tasks), cancel), Tail(tasks), cancel)

----------------------------------------------------------------------------
(* fix_metadata_handler, update_movies and update_tv *)

IdleHandler ==
    [pc |-> "idle", pass |-> "movie", shard |-> 1, cursor |-> 0, tasks |-> << >>,
     cancelled |-> FALSE, error |-> FALSE]

\* the documents collection.find({}) yields in shard i
PerShard(pass, i) == IF pass = "movie" THEN MovieCounts[i] ELSE ShowCounts[i]

\* the unit of the j-th document of shard i
UnitAt(pass, i, j) ==
    IF pass = "movie" THEN MovieUnit(Before(MovieCounts, i) + j)
    ELSE TvUnit(Before(ShowCounts, i) + j)

DocOf(u) == IF u[1] = "movie" THEN movieStore[u[2]] ELSE tvStore[u[2]]

ShardOf(u) == IF u[1] = "movie" THEN MovieShard(u[2]) ELSE ShowShard(u[2])

Settled_Always(u) == TRUE

\* the coroutine of the unit is over: it returned at once or left the block
Settled(u) == unit[u].pc \in {"returned", "finished"}

\* fix_metadata.py:288: if CANCEL_REQUESTED: return
ReportSuppressed_Never(cancel) == FALSE

ReportSuppressed(cancel) == cancel

\* fix_metadata.py:288-297: the end of the handler, with the value of DONE
Ended(h, done, error) ==
    /\ handler' = [h EXCEPT !.pc = "returned", !.tasks = << >>,
                            !.cancelled = CANCEL_REQUESTED, !.error = error]
    /\ reports' = IF ReportSuppressed(CANCEL_REQUESTED) THEN reports
                  ELSE Append(reports, [done |-> done, total |-> TOTAL])

\* fix_metadata.py:282-284, after a pass has returned
AfterPass_IgnoresFlag(h, done) ==
    IF h.pass = "movie"
    THEN /\ handler' = [h EXCEPT !.pc = "cursor", !.pass = "tv", !.shard = 1,
                                 !.cursor = 0, !.tasks = << >>]
         /\ UNCHANGED reports
    ELSE Ended(h, done, FALSE)

AfterPass(h, done) ==
    IF h.pass = "movie" /\ ~CANCEL_REQUESTED
    THEN /\ handler' = [h EXCEPT !.pc = "cursor", !.pass = "tv", !.shard = 1,
                                 !.cursor = 0, !.tasks = << >>]
         /\ UNCHANGED reports
    ELSE Ended(h, done, FALSE)

\* the callback of the cancel button, fix_metadata.py:36-41
cancel_fix ==
    /\ CANCEL_REQUESTED' = TRUE
    /\ UNCHANGED <<DONE, TOTAL, semaphore, handler, unit, eptask, movieStore,
                   tvStore, reports>>
    /\ UNCHANGED <<resVars, API_SEMAPHORE, gateVars, detail, entry>>

\* fix_metadata.py:47-73: the flag is cleared, the documents are counted
fix_metadata_handler ==
    /\ handler.pc = "idle"
    /\ CANCEL_REQUESTED' = FALSE
    /\ TOTAL' = Cardinality(Movies) + Cardinality(Shows)
    /\ DONE' = 0
    /\ semaphore' = CONCURRENCY
    /\ handler' = [handler EXCEPT !.pc = "cursor"]
    /\ UNCHANGED <<unit, eptask, movieStore, tvStore, reports>>
    /\ UNCHANGED <<resVars, API_SEMAPHORE, gateVars, detail, entry>>

\* fix_metadata.py:242-249 and 266-273: the cursor yields the next document,
\* its coroutine is appended to tasks, and a full chunk is gathered
PullRecord ==
    /\ handler.pc = "cursor"
    /\ ~CANCEL_REQUESTED
    /\ handler.cursor < PerShard(handler.pass, handler.shard)
    /\ LET u == UnitAt(handler.pass, handler.shard, handler.cursor + 1)
           tasks == Append(handler.tasks, u)
           st == [Cur EXCEPT !.unit[u] = [NoUnit EXCEPT !.pc = "queued", !.doc = DocOf(u)]]
       IN  IF Len(tasks) >= CONCURRENCY * 2
           THEN /\ Commit(StartAll(st, tasks, CANCEL_REQUESTED))
                /\ handler' = [handler EXCEPT !.pc = "chunk", !.cursor = @ + 1,
                                              !.tasks = tasks]
           ELSE /\ Commit(st)
                /\ handler' = [handler EXCEPT !.cursor = @ + 1, !.tasks = tasks]
    /\ UNCHANGED <<CANCEL_REQUESTED, TOTAL, movieStore, tvStore, reports>>
    /\ UNCHANGED <<resVars, API_SEMAPHORE, gateVars, detail, entry>>

\* fix_metadata.py:235-240 and 259-264: the cursor of a shard is exhausted
\* and the next shard is opened
NextShard ==
    /\ handler.pc = "cursor"
    /\ ~CANCEL_REQUESTED
    /\ handler.cursor = PerShard(handler.pass, handler.shard)
    /\ handler.shard < NShards
    /\ handler' = [handler EXCEPT !.shard = @ + 1, !.cursor = 0]
    /\ UNCHANGED <<CANCEL_REQUESTED, DONE, TOTAL, semaphore, unit, eptask,
                   movieStore, tvStore, reports>>
    /\ UNCHANGED <<resVars, API_SEMAPHORE, gateVars, detail, entry>>

\* fix_metadata.py:236-237, 243-244, 251-252 (and 260-276): the loops end,
\* by exhaustion or because CANCEL_REQUESTED is set, and the last partial
\* chunk is gathered
PassLoopEnds ==
    /\ handler.pc = "cursor"
    /\ \/ CANCEL_REQUESTED
       \/ handler.cursor = PerShard(handler.pass, handler.shard) /\ handler.shard = NShards
    /\ IF handler.tasks # << >>
       THEN /\ Commit(StartAll(Cur, handler.tasks, CANCEL_REQUESTED))
            /\ handler' = [handler EXCEPT !.pc = "final"]
            /\ UNCHANGED reports
       ELSE /\ AfterPass(handler, DONE)
            /\ UNCHANGED <<DONE, semaphore, unit, eptask>>
    /\ UNCHANGED <<CANCEL_REQUESTED, TOTAL, movieStore, tvStore>>
    /\ UNCHANGED <<resVars, API_SEMAPHORE, gateVars, detail, entry>>

\* the cursor raises: the error leaves the pass, fix_metadata.py:285-286
\* logs it, and the coroutines still in tasks are never run
CursorRaises ==
    /\ handler.pc = "cursor"
    /\ Ended(handler, DONE, TRUE)
    /\ UNCHANGED <<CANCEL_REQUESTED, DONE, TOTAL, semaphore, unit, eptask,
                   movieStore, tvStore>>
    /\ UNCHANGED <<resVars, API_SEMAPHORE, gateVars, detail, entry>>

\* fix_metadata.py:248-249, 252 (and 272-273, 276): every coroutine of the
\* gathered chunk has finished
GatherDone ==
    /\ handler.pc \in {"chunk", "final"}
    /\ \A i \in 1..Len(handler.tasks) : Settled(handler.tasks[i])
    /\ IF handler.pc = "chunk"
       THEN /\ handler' = [handler EXCEPT !.pc = "cursor", !.tasks = << >>]
            /\ UNCHANGED reports
       ELSE AfterPass(handler, DONE)
    /\ UNCHANGED <<CANCEL_REQUESTED, DONE, TOTAL, semaphore, unit, eptask,
                   movieStore, tvStore>>
    /\ UNCHANGED <<resVars, API_SEMAPHORE, gateVars, detail, entry>>

----------------------------------------------------------------------------
(* _safe_update_movie, _safe_update_tv and ep_task *)

FixStill == UNCHANGED <<resVars, API_SEMAPHORE, gateVars, detail, entry>>

\* fix_metadata.py:83 and 131: a coroutine that waited for the semaphore is
\* admitted and goes on with the block
UnitAdmitted(u) ==
    /\ unit[u].pc = "waiting"
    /\ semaphore > 0
    /\ Commit(Work([Cur EXCEPT !.sem = @ - 1], u, CANCEL_REQUESTED))
    /\ UNCHANGED <<CANCEL_REQUESTED, TOTAL, handler, movieStore, tvStore, reports>>
    /\ FixStill

\* fix_metadata.py:93-101 and 140-150: the resolution engine returns
UnitFetchReturns(u) ==
    /\ unit[u].pc = "fetch"
    /\ \E meta \in IF u[1] = "movie" THEN MovieResults(unit[u].doc)
                   ELSE TvResults(unit[u].doc, 1, 1) :
          Commit(IF meta = Raised THEN Counted(Cur, u, "raised")
                 ELSE IF Truthy(meta)
                      THEN [Cur EXCEPT !.unit[u].pc = "update",
                                       !.unit[u].set = ShowSet(meta)]
                 ELSE IF u[1] = "movie" THEN Counted(Cur, u, "unresolved")
                 ELSE EpisodeStage(Cur, u, CANCEL_REQUESTED, "unresolved"))
    /\ UNCHANGED <<CANCEL_REQUESTED, TOTAL, handler, movieStore, tvStore, reports>>
    /\ FixStill

\* fix_metadata.py:102-121 and 151-164, 226-228: update_one returns or raises
UnitUpdateReturns(u) ==
    /\ unit[u].pc = "update"
    /\ \/ /\ IF u[1] = "movie"
             THEN /\ movieStore' = MovieUpdateOne(movieStore, ShardOf(u),
                                                  unit[u].doc.tmdb_id, unit[u].set)
                  /\ UNCHANGED tvStore
                  /\ Commit(Counted(Cur, u, "updated"))
             ELSE /\ tvStore' = TvUpdateOne(tvStore, ShardOf(u),
                                            unit[u].doc.tmdb_id, unit[u].set)
                  /\ UNCHANGED movieStore
                  /\ Commit(EpisodeStage(Cur, u, CANCEL_REQUESTED, "updated"))
       \/ /\ Commit(Counted(Cur, u, "update_failed"))
          /\ UNCHANGED <<movieStore, tvStore>>
    /\ UNCHANGED <<CANCEL_REQUESTED, TOTAL, handler, reports>>
    /\ FixStill

\* the wave of the i-th task of a show, counted from 0 (fix_metadata.py:218-221)
WaveOf(i) == (i - 1) \div CONCURRENCY

WaveTasks(u, w) ==
    {<<u[2], unit[u].tasks[i]>> : i \in {j \in 1..Len(unit[u].tasks) : WaveOf(j) = w}}

EpTasksOf(u) == {<<u[2], unit[u].tasks[i]>> : i \in 1..Len(unit[u].tasks)}

\* fix_metadata.py:214: the tasks made by asyncio.create_task all start once
\* the coroutine that created them suspends, whatever their wave
EpTasksStart(u) ==
    /\ u[1] = "tv"
    /\ EpTasksOf(u) # {}
    /\ \A x \in EpTasksOf(u) : eptask[x].pc = "created"
    /\ eptask' = [x \in EpUnits |->
                     IF x \in EpTasksOf(u) THEN [eptask[x] EXCEPT !.pc = "fetch"]
                     ELSE eptask[x]]
    /\ UNCHANGED <<CANCEL_REQUESTED, DONE, TOTAL, semaphore, handler, unit,
                   movieStore, tvStore, reports>>
    /\ FixStill

\* fix_metadata.py:187-197: the resolution engine returns to an ep_task
EpFetchReturns(x) ==
    /\ eptask[x].pc = "fetch"
    /\ \E meta \in TvResults(unit[TvUnit(x[1])].doc, 1, x[2]) :
          eptask' = [eptask EXCEPT ![x] =
                        IF meta = Raised THEN [pc |-> "done", set |-> None, out |-> "raised"]
                        ELSE IF Truthy(meta)
                             THEN [pc |-> "update", set |-> EpisodeSet(meta), out |-> "none"]
                        ELSE [pc |-> "done", set |-> None, out |-> "unresolved"]]
    /\ UNCHANGED <<CANCEL_REQUESTED, DONE, TOTAL, semaphore, handler, unit,
                   movieStore, tvStore, reports>>
    /\ FixStill

\* fix_metadata.py:198-212: update_one returns or raises in an ep_task
EpUpdateReturns(x) ==
    /\ eptask[x].pc = "update"
    /\ \/ /\ tvStore' = EpisodeUpdateOne(tvStore, ShowShard(x[1]),
                                         unit[TvUnit(x[1])].doc.tmdb_id, x[2], eptask[x].set)
          /\ eptask' = [eptask EXCEPT ![x] = [pc |-> "done", set |-> None, out |-> "updated"]]
       \/ /\ UNCHANGED tvStore
          /\ eptask' = [eptask EXCEPT ![x] =
                           [pc |-> "done", set |-> None, out |-> "update_failed"]]
    /\ UNCHANGED <<CANCEL_REQUESTED, DONE, TOTAL, semaphore, handler, unit,
                   movieStore, reports>>
    /\ FixStill

\* the outcomes of an ep_task that met an error (fix_metadata.py:211-212)
EpFailures == {"raised", "update_failed"}

\* fix_metadata.py:222: gather(*batch, return_exceptions=True) hands errors
\* back as results, and ep_task has caught its own: the await never raises
WaveRaises_OnFailure(u) ==
    \E x \in WaveTasks(u, unit[u].wave) : eptask[x].out \in EpFailures

WaveRaises(u) == FALSE

\* fix_metadata.py:218-228: the awaited wave is over; the next one is
\* awaited unless CANCEL_REQUESTED is set, and after the last the show is
\* counted; an error raised by the await would end the show at line 226-228
WaveDone(u) ==
    /\ unit[u].pc = "wave"
    /\ \/ WaveRaises(u)
       \/ \A x \in WaveTasks(u, unit[u].wave) : eptask[x].pc = "done"
    /\ Commit(IF WaveRaises(u) THEN Counted(Cur, u, "raised")
              ELSE IF (unit[u].wave + 1) * CONCURRENCY >= Len(unit[u].tasks)
                      \/ CANCEL_REQUESTED
                   THEN Counted(Cur, u, unit[u].out)
              ELSE [Cur EXCEPT !.unit[u].wave = @ + 1])
    /\ UNCHANGED <<CANCEL_REQUESTED, TOTAL, handler, movieStore, tvStore, reports>>
    /\ FixStill

InitFix ==
    /\ CANCEL_REQUESTED \in BOOLEAN
    /\ DONE = 0
    /\ TOTAL = 0
    /\ semaphore = CONCURRENCY
    /\ handler = IdleHandler
    /\ unit = [u \in Units |-> NoUnit]
    /\ eptask = [x \in EpUnits |-> NoEpTask]
    /\ movieStore \in [Movies -> UNION {MovieDocs(m) : m \in Movies}]
    /\ \A m \in Movies : movieStore[m] \in MovieDocs(m)
    /\ tvStore \in [Shows -> UNION {TvDocs(t) : t \in Shows}]
    /\ \A t \in Shows : tvStore[t] \in TvDocs(t)
    /\ reports = << >>

NextFix ==
    \/ cancel_fix
    \/ fix_metadata_handler
    \/ PullRecord
    \/ NextShard
    \/ PassLoopEnds
    \/ CursorRaises
    \/ GatherDone
    \/ \E u \in Units : UnitAdmitted(u)
    \/ \E u \in Units : UnitFetchReturns(u)
    \/ \E u \in Units : UnitUpdateReturns(u)
    \/ \E u \in Units : EpTasksStart(u)
    \/ \E x \in EpUnits : EpFetchReturns(x)
    \/ \E x \in EpUnits : EpUpdateReturns(x)
    \/ \E u \in Units : WaveDone(u)

----------------------------------------------------------------------------
(* The provider calls of a resolution that the reconciler awaits.  Every    *)
(* call is made inside async with API_SEMAPHORE (metadata.py:58, 73, 93,    *)
(* 106, 120, 210, 217): the slot is taken when the block is entered and     *)
(* given back when it is left, by return or by exception.                   *)

\* a resolution awaited by a unit (fix_metadata.py:93, 140) enters a call
UnitCalls(u) ==
    /\ unit[u].pc = "fetch"
    /\ Enter(API_SEMAPHORE)
    /\ unit' = [unit EXCEPT ![u].pc = "call"]
    /\ UNCHANGED <<resVars, gateVars, detail, entry, CANCEL_REQUESTED, DONE, TOTAL, semaphore,
                   handler, eptask, movieStore, tvStore, reports>>

\* the call returns or raises: the block is left
UnitCallReturns(u) ==
    /\ unit[u].pc = "call"
    /\ Leave(API_SEMAPHORE)
    /\ unit' = [unit EXCEPT ![u].pc = "fetch"]
    /\ UNCHANGED <<resVars, gateVars, detail, entry, CANCEL_REQUESTED, DONE, TOTAL, semaphore,
                   handler, eptask, movieStore, tvStore, reports>>

\* a resolution awaited by an ep_task (fix_metadata.py:187) enters a call
EpCalls(x) ==
    /\ eptask[x].pc = "fetch"
    /\ Enter(API_SEMAPHORE)
    /\ eptask' = [eptask EXCEPT ![x].pc = "call"]
    /\ UNCHANGED <<resVars, gateVars, detail, entry, CANCEL_REQUESTED, DONE, TOTAL, semaphore,
                   handler, unit, movieStore, tvStore, reports>>

EpCallReturns(x) ==
    /\ eptask[x].pc = "call"
    /\ Leave(API_SEMAPHORE)
    /\ eptask' = [eptask EXCEPT ![x].pc = "fetch"]
    /\ UNCHANGED <<resVars, gateVars, detail, entry, CANCEL_REQUESTED, DONE, TOTAL, semaphore,
                   handler, unit, movieStore, tvStore, reports>>

\* the reconciler together with the calls of the resolutions it awaits
NextFetch ==
    \/ NextFix
    \/ \E u \in Units : UnitCalls(u)
    \/ \E u \in Units : UnitCallReturns(u)
    \/ \E x \in EpUnits : EpCalls(x)
    \/ \E x \in EpUnits : EpCallReturns(x)

\* fix_metadata.py:46-49: the command arrives again while a run is in
\* progress.  The handler is entered a second time and its first statement
\* clears the module's flag, which the first run polls; everything else the
\* second run works on (TOTAL, DONE, its semaphore, its tasks) is local to it
fix_metadata_handler_again ==
    /\ handler.pc \notin {"idle", "returned"}
    /\ CANCEL_REQUESTED' = FALSE
    /\ UNCHANGED <<DONE, TOTAL, semaphore, handler, unit, eptask, movieStore,
                   tvStore, reports>>
    /\ FixStill

\* the reconciler with commands arriving during a run
NextAgain ==
    \/ NextFix
    \/ fix_metadata_handler_again

\* the reconciler at rest, with every document complete
RestFix ==
    /\ InitFix
    /\ ~CANCEL_REQUESTED
    /\ \A m \in Movies : HasMeta(movieStore[m])
    /\ \A t \in Shows : HasMeta(tvStore[t]) /\ \A e \in EpNums : EpisodeComplete(tvStore[t].episodes[e])

----------------------------------------------------------------------------
(* imdb.py get_detail: the client is obtained, then /meta/movie/ID and      *)
(* /meta/series/ID are requested in turn inside a try block whose except    *)
(* clause goes on with the next media type.                                 *)

\* imdb.py:63: for media_type in ['movie', 'series']
MediaTypes == <<"movie", "series">>

\* what client.get(url) may give: an error of the transport, or a response
\* with its status, whether its body parses, whether the parsed body holds
\* 'meta' and whether that is a dictionary, its imdbRating and its type
DetailResponses ==
    {Raised}
        \cup [k : {"resp"}, status_code : {404, 500}, json : {"invalid"},
              meta : {"missing"}, imdbRating : {"absent"}, type : {"absent"}]
        \cup [k : {"resp"}, status_code : {200}, json : {"invalid", "null"},
              meta : {"missing"}, imdbRating : {"absent"}, type : {"absent"}]
        \cup [k : {"resp"}, status_code : {200}, json : {"dict"},
              meta : {"missing", "null"}, imdbRating : {"absent"}, type : {"absent"}]
        \cup [k : {"resp"}, status_code : {200}, json : {"dict"}, meta : {"dict"},
              imdbRating : {"text"}, type : {"absent"}]
        \cup [k : {"resp"}, status_code : {200}, json : {"dict"}, meta : {"dict"},
              imdbRating : {"absent", "number"}, type : {"absent", "movie", "series"}]

\* imdb.py:65-94, the body of the try block once client.get is over: None
\* stands for continue, Raised for an error raised in the block (by
\* client.get, by resp.json(), by 'meta' not in None, by None.get or by
\* float() of a rating that is no number), a record for the returned dict
ProbeBody(resp, media_type) ==
    IF resp = Raised THEN Raised
    ELSE IF resp.status_code # 200 THEN None
    ELSE IF resp.json = "invalid" THEN Raised
    ELSE IF resp.json = "null" THEN Raised
    ELSE IF resp.meta = "missing" THEN None
    ELSE IF resp.meta = "null" THEN Raised
    ELSE IF resp.imdbRating = "text" THEN Raised
    ELSE [k |-> "imdb",
          type |-> IF resp.type = "absent" THEN media_type ELSE resp.type,
          star |-> IF resp.imdbRating = "absent" THEN 0 ELSE 1]

Caught_Propagates(outcome) == outcome

\* imdb.py:95-96: except Exception: continue
Caught(outcome) == IF outcome = Raised THEN None ELSE outcome

IdleDetail == [pc |-> "idle", imdb_id |-> None, i |-> 0, probes |-> << >>, result |-> None]

\* get_detail is called and awaits _get_client() (imdb.py:62)
get_detail ==
    /\ detail.pc = "idle"
    /\ \E n \in ImdbIds : detail' = [detail EXCEPT !.pc = "client", !.imdb_id = IdStr(TRUE, n)]
    /\ UNCHANGED <<resVars, API_SEMAPHORE, gateVars, entry, fixVars>>

\* _get_client() returns and the first request is sent, or it raises,
\* outside the try block
ClientReturns ==
    /\ detail.pc = "client"
    /\ \/ detail' = [detail EXCEPT !.pc = "get", !.i = 1]
       \/ detail' = [detail EXCEPT !.pc = "raised", !.result = Raised]
    /\ UNCHANGED <<resVars, API_SEMAPHORE, gateVars, entry, fixVars>>

\* imdb.py:64-97: client.get is over and the rest of the iteration runs: the
\* dict is returned, or the loop goes on to the next media type, or it ends
\* and None is returned
ProbeReturns ==
    /\ detail.pc = "get"
    /\ \E resp \in DetailResponses :
          LET media_type == MediaTypes[detail.i]
              outcome == Caught(ProbeBody(resp, media_type))
              probes == Append(detail.probes, [media_type |-> media_type, resp |-> resp])
          IN  detail' =
                  IF outcome = Raised
                  THEN [detail EXCEPT !.pc = "raised", !.probes = probes, !.result = Raised]
                  ELSE IF Truthy(outcome)
                  THEN [detail EXCEPT !.pc = "returned", !.probes = probes,
                                      !.result = outcome]
                  ELSE IF detail.i < Len(MediaTypes)
                  THEN [detail EXCEPT !.i = @ + 1, !.probes = probes]
                  ELSE [detail EXCEPT !.pc = "returned", !.probes = probes,
                                      !.result = None]
    /\ UNCHANGED <<resVars, API_SEMAPHORE, gateVars, entry, fixVars>>

NextDetail ==
    \/ get_detail
    \/ ClientReturns
    \/ ProbeReturns

----------------------------------------------------------------------------
(* metadata.py metadata: the single-item entry point.  The file name is     *)
(* parsed, unusable items are turned away, and fetch_tv_metadata or         *)
(* fetch_movie_metadata, the only places where providers are called, is     *)
(* awaited for the others.                                                  *)

\* a parsed value as Python tests it: None, 0 and "" are false
ParsedTruthy(x) == x \notin {"None", "0", ""}

\* what PTN.parse gives for a file name: an error, or the parsed fields
\* (season and episode are absent, a number or a list), with whether the
\* excess mentions "combined" and whether the name matches multipart_pattern
Filenames ==
    {[k |-> "unparsable"]}
        \cup [k : {"parsed"}, combined : BOOLEAN, multipart : BOOLEAN,
              title : {"None", "X"}, season : {"None", "0", "1", "list"},
              episode : {"None", "0", "1", "list"}, resolution : {"None", "v"}]

\* metadata.py:130-180: the line at which the item is turned away, 0 if none
TurnedAway(f) ==
    IF f.k = "unparsable" THEN 134
    ELSE IF f.combined THEN 139
    ELSE IF f.multipart THEN 145
    ELSE IF ~ParsedTruthy(f.resolution) THEN 155
    ELSE IF f.season = "list" \/ f.episode = "list" THEN 159
    ELSE IF ParsedTruthy(f.season) /\ ~ParsedTruthy(f.episode) THEN 163
    ELSE IF ~ParsedTruthy(f.title) THEN 180
    ELSE 0

IdleEntry == [pc |-> "idle", file |-> None, fetch |-> "none", result |-> None]

\* metadata.py:129-184: the call runs to return None or to await encode_string
metadata ==
    /\ entry.pc = "idle"
    /\ \E f \in Filenames :
          entry' = IF TurnedAway(f) # 0
                   THEN [IdleEntry EXCEPT !.pc = "returned", !.file = f]
                   ELSE [IdleEntry EXCEPT !.pc = "encode", !.file = f]
    /\ UNCHANGED <<resVars, API_SEMAPHORE, gateVars, detail, fixVars>>

\* metadata.py:183-194: encode_string returns or raises, and the resolution
\* is entered: fetch_tv_metadata if season and episode, else
\* fetch_movie_metadata
EncodeReturns ==
    /\ entry.pc = "encode"
    /\ entry' = [entry EXCEPT !.pc = "fetch",
                              !.fetch = IF ParsedTruthy(entry.file.season)
                                            /\ ParsedTruthy(entry.file.episode)
                                        THEN "tv" ELSE "movie"]
    /\ UNCHANGED <<resVars, API_SEMAPHORE, gateVars, detail, fixVars>>

\* metadata.py:191-197: the resolution returns its record or None, or raises
\* and None is returned
FetchReturns ==
    /\ entry.pc = "fetch"
    /\ \E a \in {[k |-> "record", kind |-> entry.fetch], None, Raised} :
          entry' = [entry EXCEPT !.pc = "returned",
                                 !.result = IF a = Raised THEN None ELSE a]
    /\ UNCHANGED <<resVars, API_SEMAPHORE, gateVars, detail, fixVars>>

NextEntry ==
    \/ metadata
    \/ EncodeReturns
    \/ FetchReturns

----------------------------------------------------------------------------
vars == <<resVars, API_SEMAPHORE, gateVars, detail, entry, fixVars>>

Init == InitRes /\ InitGate /\ detail = IdleDetail /\ entry = IdleEntry /\ RestFix

InitReconciler == InitRes /\ InitGate /\ detail = IdleDetail /\ entry = IdleEntry /\ InitFix

SpecFix == InitReconciler /\ [][NextFix]_vars

SpecAgain == InitReconciler /\ [][NextAgain]_vars

SpecFetch == InitReconciler /\ [][NextFetch]_vars

\* Scheduling: the event loop runs every coroutine that can run, every
\* store call returns, a resolution makes finitely many provider calls and
\* a semaphore admits its waiters, so a step of the run that can be taken
\* again and again is taken; and every provider call returns.  The cancel
\* button, a second command and an error of a cursor are left to the
\* environment.
FairFetch ==
    /\ SF_vars(\/ PullRecord \/ NextShard \/ PassLoopEnds \/ GatherDone
               \/ \E u \in Units : \/ UnitAdmitted(u) \/ UnitFetchReturns(u)
                                   \/ UnitUpdateReturns(u) \/ EpTasksStart(u)
                                   \/ WaveDone(u)
               \/ \E x \in EpUnits : EpFetchReturns(x) \/ EpUpdateReturns(x))
    /\ WF_vars(\/ \E u \in Units : UnitCallReturns(u)
               \/ \E x \in EpUnits : EpCallReturns(x))

LiveFetch == SpecFetch /\ FairFetch

SpecRes == Init /\ [][NextRes]_vars

SpecGate == Init /\ [][NextGate]_vars

SpecDetail == Init /\ [][NextDetail]_vars

SpecEntry == Init /\ [][NextEntry]_vars

----------------------------------------------------------------------------
(* What a resolution did, read from its log *)

SecondaryCallPcs == {"tmdb_search_call", "tmdb_detail_call", "tmdb_episode_call"}

Events(r) == {r.log[i] : i \in 1..Len(r.log)}

Looked(r, op) == \E ev \in Events(r) : ev.op = op

Got(r, op, outs) == \E ev \in Events(r) : ev.op = op /\ ev.out \in outs

Called(r) == \E ev \in Events(r) : ev.via = "call"

ImdbHints == {IdStr(TRUE, n) : n \in ImdbIds}

\* the provider a payload came from
Provider(v) ==
    CASE v.k \in {"imdb", "imdb_ep"} -> "imdb"
      [] v.k \in {"tmdb", "tmdb_ep"} -> "tmdb"
      [] OTHER -> "none"

\* the cache and the key a lookup of the resolution r stores its outcome under
Stored(r, op) ==
    CASE op = "imdb_search" -> Has(IMDB_CACHE, ImdbSearchKey(r.req))
      [] op = "imdb_detail" -> Has(IMDB_CACHE, ImdbDetailKey(r.imdb_id))
      [] op = "imdb_episode" ->
            Has(EPISODE_CACHE, ImdbEpisodeKey(r.imdb_id, r.req.season, r.req.episode))
      [] op = "tmdb_search" -> Has(TMDB_SEARCH_CACHE, TmdbSearchKey(r.req))
      [] op = "tmdb_detail" -> Has(TMDB_DETAILS_CACHE, TmdbDetailsKey(r.tmdb_result.id))
      [] op = "tmdb_episode" ->
            Has(EPISODE_CACHE, TmdbEpisodeKey(r.tmdb_result.id, r.req.season, r.req.episode))

----------------------------------------------------------------------------
(* C1 *)

----------------------------------------------------------------------------
(* C2 *)

\* C2: a resolution whose hint is a primary-provider identifier makes no
\* primary search and looks the primary detail up (in the cache or by a
\* call) before any secondary-provider lookup; in every resolution a
\* primary lookup precedes every secondary lookup.
C2_PrimaryBeforeSecondary ==
    \A p \in Procs :
        LET r == res[p]
            first(op) == IF Len(r.log) > 0 THEN r.log[1].op = op ELSE FALSE
            secondary == r.pc \in SecondaryCallPcs \cup SecondaryOps
                            \/ \E op \in SecondaryOps : Looked(r, op)
        IN  /\ r.req \in Reqs /\ r.req.default_id \in ImdbHints =>
                /\ ~Looked(r, "imdb_search")
                /\ r.pc \notin {"imdb_search", "imdb_search_call"}
                /\ secondary => first("imdb_detail")
            /\ secondary => Len(r.log) > 0 /\ r.log[1].op \in PrimaryOps

C2_Witness ==
    \E p \in Procs :
        LET r == res[p]
        IN  /\ r.pc = "done"
            /\ r.req.default_id \in ImdbHints
            /\ Looked(r, "imdb_detail")
            /\ Looked(r, "tmdb_search")
            /\ r.result.k = "meta"

----------------------------------------------------------------------------
(* C3 *)

\* C3, as stated: when the primary provider yields no record and the
\* secondary search or the secondary detail lookup yields absent, the
\* resolution returns absence: it does not raise and returns no record.
C3_AbsentSecondaryIsUnresolved ==
    \A p \in Procs :
        LET r == res[p]
        IN  (/\ r.pc = "done"
             /\ ~Got(r, "imdb_detail", {"hit"})
             /\ \/ Got(r, "tmdb_search", {"absent", "raise"})
                \/ Got(r, "tmdb_detail", {"absent", "raise"}))
            => r.result = None

----------------------------------------------------------------------------
(* C4 *)

\* C4, as stated: a resolution started after a resolution with the same
\* input has returned makes no outbound provider call.
C4_SecondResolutionFromCache ==
    \A p \in Procs :
        res[p].after => ~Called(res[p]) /\ res[p].pc \notin CallPcs

----------------------------------------------------------------------------
(* C5 *)

\* C5, as stated: a lookup that missed the cache and whose provider call
\* failed or yielded nothing has stored an entry under its key.
C5_AbsentOutcomeStored ==
    \A p \in Procs :
        \A ev \in Events(res[p]) :
            (ev.via = "call" /\ ev.out \in {"absent", "raise"}) => Stored(res[p], ev.op)

----------------------------------------------------------------------------
(* C6 *)

\* C6: every record returned is built from one provider: its show-level
\* fields and its episode-level fields come from the provider whose shape
\* the record has.
C6_OneProviderPerRecord ==
    \A p \in Procs :
        LET r == res[p]
        IN  (r.pc = "done" /\ r.result.k = "meta")
            => /\ Provider(r.result.show) = r.result.shape
               /\ r.result.episode # DefaultEpisode
                     => Provider(r.result.episode) = r.result.shape
               /\ r.result.shape = "imdb" <=> ~r.use_tmdb

C6_Witness ==
    \E p \in Procs :
        LET r == res[p]
        IN  /\ r.pc = "done"
            /\ r.req.kind = "tv"
            /\ Got(r, "imdb_detail", {"absent"})
            /\ Got(r, "imdb_episode", {"hit"})
            /\ r.result.k = "meta"
            /\ r.result.episode # DefaultEpisode

----------------------------------------------------------------------------
(* C7 *)

\* C7: the provider calls in flight, over both providers, never exceed the
\* 12 slots of API_SEMAPHORE, and every call in flight holds one slot.
C7_CallsWithinGate ==
    /\ Sum(calling) <= 12
    /\ Sum(calling) = ApiSlots - API_SEMAPHORE
    /\ API_SEMAPHORE >= 0

C7_Witness ==
    /\ Sum(calling) = 12
    /\ Sum(waiting) > 0
    /\ \E a \in PrimaryOps, b \in SecondaryOps : calling[a] > 0 /\ calling[b] > 0

----------------------------------------------------------------------------
(* C8 *)

\* a record unit that has not begun its work: its coroutine is not started,
\* or it waits for the semaphore of fix_metadata.py:73
NotBegun(u) == unit[u].pc \in {"none", "queued", "waiting"}

\* C8: once CANCEL_REQUESTED is set, no record unit that had not begun its
\* work begins it: a unit still waiting for the semaphore makes no call to
\* the resolution engine and no store update after it is admitted.
C8_NoUnitBeginsAfterCancel ==
    [][CANCEL_REQUESTED =>
          \A u \in Units : NotBegun(u) => unit'[u].pc \notin {"fetch", "update"}]_vars

----------------------------------------------------------------------------
(* C9 *)

\* the ep_task x belongs to a wave after the one its show is awaiting
LaterWave(x) ==
    LET u == TvUnit(x[1])
    IN  \E i \in 1..Len(unit[u].tasks) :
           unit[u].tasks[i] = x[2] /\ WaveOf(i) > unit[u].wave

\* C9: once CANCEL_REQUESTED is set while the episodes of a show are being
\* processed, no ep_task of a later wave starts its resolution or its store
\* update: only the wave in flight runs to completion.
C9_LaterWavesNeverStart ==
    [][CANCEL_REQUESTED =>
          \A x \in EpUnits :
             LaterWave(x) =>
                /\ ~(eptask[x].pc = "created" /\ eptask'[x].pc = "fetch")
                /\ ~(eptask[x].pc = "fetch" /\ eptask'[x].pc = "update")]_vars

----------------------------------------------------------------------------
(* C10 *)

\* C10: a run of fix_metadata_handler emits the completion report exactly
\* when it ends with CANCEL_REQUESTED unset: no report when the flag is set
\* at the end, and exactly one report, carrying DONE and TOTAL, when it is
\* not, however many units failed.
C10_ReportIffNotCancelled ==
    /\ handler.pc # "returned" => reports = << >>
    /\ handler.pc = "returned" =>
          IF handler.cancelled THEN reports = << >>
          ELSE reports = <<[done |-> DONE, total |-> TOTAL]>>

C10_Witness ==
    /\ handler.pc = "returned"
    /\ ~handler.cancelled /\ ~handler.error
    /\ Len(reports) = 1
    /\ \A u \in Units : unit[u].pc = "finished"
    /\ \E u \in Units : unit[u].out = "raised"
    /\ \E u \in Units : unit[u].out = "update_failed"

----------------------------------------------------------------------------
(* C11 *)

\* the coroutine of the unit has begun to run and has not ended
Running(u) == unit[u].pc \in {"waiting", "fetch", "update", "wave"}

\* C11: no show unit starts before every movie unit that was started has
\* finished; the shards of a pass are visited in increasing order; and the
\* shows pass is never started when CANCEL_REQUESTED is set as the movies
\* pass ends.
C11_MoviesThenShows ==
    /\ [](\A t \in Shows :
             unit[TvUnit(t)].pc # "none" => \A m \in Movies : ~Running(MovieUnit(m)))
    /\ [][/\ handler'.pass = handler.pass => handler'.shard >= handler.shard
          /\ handler'.pass # handler.pass =>
                /\ handler.pass = "movie" /\ handler'.pass = "tv"
                /\ handler'.shard = 1
                /\ ~CANCEL_REQUESTED]_vars

C11_Witness ==
    /\ handler.pass = "tv" /\ handler.shard = NShards /\ NShards > 1
    /\ \E t \in Shows : unit[TvUnit(t)].pc = "fetch"
    /\ \A m \in Movies : unit[MovieUnit(m)].pc = "finished"
    /\ \E m \in Movies : unit[MovieUnit(m)].out = "updated"

----------------------------------------------------------------------------
(* C12 *)

\* a record with non-empty cast, description and genres and a non-empty logo
CompleteRecord(doc) ==
    /\ doc # None
    /\ doc.body = StoredBody("v", "v", "v", "v")

\* a show record complete at show level whose episodes are all complete
CompleteShow(doc) ==
    /\ CompleteRecord(doc)
    /\ \A e \in EpNums : doc.episodes[e] = StoredEpisode("v", "v", "v")

\* the unit u calls the resolution engine or the store, itself or through
\* one of its ep_task tasks
Touches(u) ==
    \/ unit[u].pc \in {"fetch", "update", "wave"}
    \/ u[1] = "tv" /\ \E e \in EpNums : eptask[<<u[2], e>>].pc # "none"

\* C12: for a movie record that is already complete, and for a show record
\* complete at show level with all its episodes complete, the reconciler
\* makes no provider call and no store update, and counts the record done.
C12_CompleteRecordSkipped ==
    \A u \in Units :
       LET doc == unit[u].doc
       IN  (IF u[1] = "movie" THEN CompleteRecord(doc) ELSE CompleteShow(doc)) =>
              /\ ~Touches(u)
              /\ DocOf(u) = doc
              /\ unit[u].pc = "finished" => unit[u].out = "complete" /\ DONE >= 1

C12_Witness ==
    /\ \E m \in Movies :
          /\ CompleteRecord(unit[MovieUnit(m)].doc)
          /\ unit[MovieUnit(m)].pc = "finished"
    /\ \E t \in Shows :
          /\ CompleteShow(unit[TvUnit(t)].doc)
          /\ unit[TvUnit(t)].pc = "finished"
    /\ \E u \in Units : unit[u].out = "updated"

----------------------------------------------------------------------------
(* C13 *)

\* the units that have ended inside the semaphore block
FinishedUnits == {u \in Units : unit[u].pc = "finished"}

----------------------------------------------------------------------------
(* C14 *)

\* C14: DONE is incremented once for a show and never for an episode, and
\* only after every ep_task created for the show has finished, also when
\* CANCEL_REQUESTED is set while ep_task tasks are outstanding.
C14_ShowCountedAfterEpisodes ==
    /\ DONE = Cardinality({u \in Units : unit[u].out # "none" /\ unit[u].pc = "finished"})
    /\ \A t \in Shows :
          unit[TvUnit(t)].pc = "finished" =>
             \A e \in EpNums : eptask[<<t, e>>].pc \in {"none", "done"}

----------------------------------------------------------------------------
(* C15 *)

\* C15: within one show, the failure of one ep_task (an error raised by the
\* resolution or by the store update) does not abort the show unit, does not
\* keep a sibling ep_task from running to completion, and does not abort the
\* batch: the show is counted once with its own outcome, and a run that ends
\* without cancellation and without a cursor error has finished every
\* ep_task and every record.
C15_EpisodeFailureIsolated ==
    /\ \A t \in Shows :
          (\E e \in EpNums : eptask[<<t, e>>].out \in EpFailures) =>
             /\ unit[TvUnit(t)].pc \in {"wave", "finished"}
             /\ unit[TvUnit(t)].out \in {"complete", "updated", "unresolved"}
             /\ unit[TvUnit(t)].pc = "finished" /\ ~CANCEL_REQUESTED =>
                   \A e \in EpNums : eptask[<<t, e>>].pc \in {"none", "done"}
    /\ handler.pc = "returned" /\ ~handler.cancelled /\ ~handler.error =>
          /\ \A x \in EpUnits : eptask[x].pc \in {"none", "done"}
          /\ \A u \in Units : unit[u].pc = "finished"
          /\ DONE = Cardinality(Units)

C15_Witness ==
    /\ handler.pc = "returned" /\ ~handler.cancelled /\ ~handler.error
    /\ \E t \in Shows, e1, e2 \in EpNums :
          /\ eptask[<<t, e1>>].out \in EpFailures
          /\ eptask[<<t, e2>>].out = "updated"
          /\ tvStore[t].episodes[e2].k # "stored_ep"
          /\ unit[TvUnit(t)].pc = "finished"
          /\ \E t2 \in Shows : t2 > t /\ unit[TvUnit(t2)].out = "updated"
    /\ DONE = TOTAL

----------------------------------------------------------------------------
(* C16 *)

\* C16: the ep_task tasks of a show run in waves of at most CONCURRENCY: at
\* any moment at most CONCURRENCY of them have started and not finished, and
\* none of wave k+1 starts before every one of wave k has finished.
C16_EpisodesRunInWaves ==
    \A t \in Shows :
       LET u == TvUnit(t)
           started(i) == eptask[<<t, unit[u].tasks[i]>>].pc \in {"fetch", "update", "done"}
           finished(i) == eptask[<<t, unit[u].tasks[i]>>].pc = "done"
           n == Len(unit[u].tasks)
       IN  /\ Cardinality({i \in 1..n : started(i) /\ ~finished(i)}) <= CONCURRENCY
           /\ \A i, j \in 1..n :
                 WaveOf(i) < WaveOf(j) /\ started(j) /\ ~finished(j) => finished(i)

----------------------------------------------------------------------------
(* C17: both gates release unconditionally.  The slots held of the          *)
(* reconciliation gate are those of the units inside async with semaphore,  *)
(* the slots held of the outbound gate are those of the calls in flight:    *)
(* neither count exceeds the capacity of its gate, and when no unit and no  *)
(* resolution is in progress every slot of both gates is free, whether the  *)
(* work ended by completing, by failing or under cancellation.              *)

\* Held: the units inside async with semaphore (fix_metadata.py:83-121,
\* 131-228); InCall: the provider calls in flight; Resolving: whether a
\* resolution is in progress for a unit or for an ep_task
C17_GatesReleased ==
    LET Held == {u \in Units : unit[u].pc \in {"fetch", "call", "update", "wave"}}
        InCall == Cardinality({u \in Units : unit[u].pc = "call"})
                      + Cardinality({x \in EpUnits : eptask[x].pc = "call"})
        Resolving == \/ \E u \in Units : unit[u].pc \in {"fetch", "call"}
                     \/ \E x \in EpUnits : eptask[x].pc \in {"fetch", "call"}
    IN  /\ semaphore \in 0..CONCURRENCY
        /\ API_SEMAPHORE \in 0..ApiSlots
        /\ CONCURRENCY - semaphore = Cardinality(Held)
        /\ ApiSlots - API_SEMAPHORE = InCall
        /\ (~Resolving /\ \A u \in Units : ~Running(u))
               => semaphore = CONCURRENCY /\ API_SEMAPHORE = ApiSlots

\* the run is over and no resolution is left, after a unit that failed
\* inside the reconciliation gate and an ep_task whose resolution failed:
\* every slot is back
C17_Witness ==
    /\ handler.pc = "returned"
    /\ \A u \in Units : unit[u].pc \notin {"fetch", "call"}
    /\ \A x \in EpUnits : eptask[x].pc \notin {"fetch", "call"}
    /\ \E u \in Units : unit[u].out \in {"raised", "update_failed"}
    /\ \E x \in EpUnits : eptask[x].out = "raised"
    /\ semaphore = CONCURRENCY
    /\ API_SEMAPHORE = ApiSlots

----------------------------------------------------------------------------
(* C18: records are pulled in chunks of 2 x CONCURRENCY.  At any moment at  *)
(* most 2 x CONCURRENCY units are submitted and unfinished and at most      *)
(* CONCURRENCY of them hold the gate; a record is pulled only when every    *)
(* unit submitted before it is over or still waits, unstarted, in a chunk   *)
(* that is not yet full; and when a pass returns, every unit it submitted,  *)
(* those of the final partial chunk included, is over.                      *)

C18_ChunksOfTwiceN ==
    /\ [](LET Open == {u \in Units : unit[u].pc \notin {"none", "returned", "finished"}}
              Held == {u \in Units : unit[u].pc \in {"fetch", "update", "wave"}}
          IN  Cardinality(Open) <= 2 * CONCURRENCY /\ Cardinality(Held) <= CONCURRENCY)
    /\ [][handler'.cursor = handler.cursor + 1
              => /\ Len(handler.tasks) < 2 * CONCURRENCY
                 /\ \A u \in Units :
                       \/ unit[u].pc \in {"none", "returned", "finished"}
                       \/ /\ unit[u].pc = "queued"
                          /\ \E i \in 1..Len(handler.tasks) : handler.tasks[i] = u]_vars
    /\ [][(/\ handler.pc \in {"cursor", "final"}
           /\ \/ handler.pass = "movie" /\ handler'.pass = "tv"
              \/ handler'.pc = "returned" /\ ~handler'.error)
              => \A u \in Units : unit[u].pc \in {"none", "returned", "finished"}]_vars

\* the show pass has begun: the first movie held the gate and was updated
\* while the second waited, the movie of the second shard was pulled after
\* that full chunk and gathered as the final partial chunk of the movie pass
C18_Witness ==
    /\ handler.pass = "tv"
    /\ ~CANCEL_REQUESTED
    /\ unit[MovieUnit(1)].out = "updated"
    /\ \A m \in Movies : unit[MovieUnit(m)].pc = "finished"
    /\ Cardinality(Movies) > 2 * CONCURRENCY

----------------------------------------------------------------------------
(* C19: get_detail probes the movie sub-resource before the series          *)
(* sub-resource; it returns the dict of the first probe that yields a       *)
(* payload and probes nothing after it; a movie probe that fails (error of  *)
(* the transport, status other than 200) or is malformed (body that does    *)
(* not parse, no meta dictionary, rating that is no number) leads to the    *)
(* series probe and never to an error of the lookup; None is returned only  *)
(* after both probes yielded nothing.                                       *)

C19_MovieBeforeSeries ==
    LET n == Len(detail.probes)
        Payload(i) ==
            LET r == detail.probes[i].resp
            IN  /\ r # Raised
                /\ r.status_code = 200
                /\ r.json = "dict"
                /\ r.meta = "dict"
                /\ r.imdbRating # "text"
    IN  /\ n <= 2
        /\ n >= 1 => detail.probes[1].media_type = "movie"
        /\ n = 2 => detail.probes[2].media_type = "series"
        /\ \A i \in 1..(n - 1) : ~Payload(i)
        /\ (n = 1 /\ ~Payload(1)) => detail.pc = "get"
        /\ detail.pc = "raised" => n = 0
        /\ (detail.pc = "returned" /\ Truthy(detail.result))
               => /\ Payload(n)
                  /\ detail.result.type \in {detail.probes[n].resp.type,
                                             detail.probes[n].media_type}
        /\ (detail.pc = "returned" /\ ~Truthy(detail.result))
               => n = 2 /\ ~Payload(1) /\ ~Payload(2)

\* the movie request raised and the dict of the series probe was returned
C19_Witness ==
    /\ detail.pc = "returned"
    /\ Len(detail.probes) = 2
    /\ detail.probes[1].resp = Raised
    /\ Truthy(detail.result)
    /\ detail.result.type = "series"

----------------------------------------------------------------------------
(* C20: cache entries are separated by media type: the secondary            *)
(* provider's details a resolution holds, fetched or read from              *)
(* TMDB_DETAILS_CACHE, are those of its own media type, so a tv lookup      *)
(* never receives the entry a movie lookup stored under the same numeric    *)
(* id, nor a movie lookup the entry of a tv lookup.                         *)

C20_DetailsOfOwnMediaType ==
    \A p \in Procs :
        res[p].details.k = "tmdb" => res[p].details.type = res[p].req.kind

----------------------------------------------------------------------------
(* C21: metadata returns None without entering a resolution, hence without  *)
(* any provider call, whenever the parser fails, no title was parsed, the   *)
(* season or the episode is a list, or a season is given without an         *)
(* episode.                                                                 *)

C21_NoCallWhenTurnedAway ==
    LET f == entry.file
    IN  (/\ entry.pc # "idle"
         /\ \/ f.k = "unparsable"
            \/ f.title = "None"
            \/ f.season = "list"
            \/ f.episode = "list"
            \/ f.season # "None" /\ f.episode = "None")
            => /\ entry.pc = "returned"
               /\ entry.fetch = "none"
               /\ entry.result = None

----------------------------------------------------------------------------
(* C22: cache entries are stable.  In every step, every key present in one  *)
(* of the four lookup caches stays present and keeps the value stored       *)
(* under it, whichever resolution writes and whatever its provider call     *)
(* gave.                                                                    *)

C22_CacheEntriesStable ==
    [][/\ \A key \in DOMAIN IMDB_CACHE :
             Has(IMDB_CACHE', key) /\ IMDB_CACHE'[key] = IMDB_CACHE[key]
       /\ \A key \in DOMAIN TMDB_SEARCH_CACHE :
             Has(TMDB_SEARCH_CACHE', key) /\ TMDB_SEARCH_CACHE'[key] = TMDB_SEARCH_CACHE[key]
       /\ \A key \in DOMAIN TMDB_DETAILS_CACHE :
             Has(TMDB_DETAILS_CACHE', key)
                 /\ TMDB_DETAILS_CACHE'[key] = TMDB_DETAILS_CACHE[key]
       /\ \A key \in DOMAIN EPISODE_CACHE :
             Has(EPISODE_CACHE', key) /\ EPISODE_CACHE'[key] = EPISODE_CACHE[key]]_vars

----------------------------------------------------------------------------
(* C23: a cancellation stays in effect until the run returns.  While the    *)
(* handler is running, no step clears CANCEL_REQUESTED once it is set, a    *)
(* second command included; so no record is pulled and no report is sent    *)
(* after the flag was set.                                                  *)

C23_CancellationStays ==
    [][(handler.pc \notin {"idle", "returned"} /\ CANCEL_REQUESTED)
           => /\ CANCEL_REQUESTED'
              /\ handler'.cursor = handler.cursor
              /\ reports' = reports]_vars

----------------------------------------------------------------------------
(* C24: the episode update reaches the show's own stored record.  Whenever  *)
(* the update_one of an ep_task returns without error, the episode of that  *)
(* show in the store holds the overview, released and episode_backdrop of   *)
(* the resolution, also when the show-level update of the unit has          *)
(* rewritten the record's tmdb_id before.                                   *)

C24_EpisodeUpdateApplied ==
    [][\A x \in EpUnits :
          (eptask[x].pc = "update" /\ eptask'[x].out = "updated")
              => tvStore'[x[1]].episodes[x[2]] = eptask[x].set]_vars

----------------------------------------------------------------------------
(* C25: a reconciliation terminates.  With every provider call and every    *)
(* store call returning, a handler that has started always returns, with    *)
(* or without cancellation; and once it has returned no unit waits for the  *)
(* reconciliation gate, holds it, or is inside a provider call.             *)

C25_ReconciliationTerminates ==
    /\ (handler.pc # "idle") ~> (handler.pc = "returned")
    /\ [](handler.pc = "returned"
             => /\ \A u \in Units : unit[u].pc \in {"none", "queued", "returned", "finished"}
                /\ semaphore = CONCURRENCY)

\* the run has returned after a show unit held the gate while it awaited
\* its ep_tasks, and after a unit had to wait for the gate
C25_Witness ==
    /\ handler.pc = "returned"
    /\ ~handler.error
    /\ \E u \in Units : unit[u].pc = "finished" /\ Len(unit[u].tasks) = EpisodesPerShow
    /\ \A m \in Movies : unit[MovieUnit(m)].pc = "finished"
    /\ unit[MovieUnit(1)].out = "updated"

----------------------------------------------------------------------------
(* C26: what the reconciler leaves alone.  A movie or show unit whose       *)
(* resolution was Unresolved or raised has the show-level fields of its     *)
(* stored record as the cursor gave them, and an episode whose ep_task was  *)
(* not started, or whose resolution was Unresolved or raised, is stored as  *)
(* the cursor gave it; no step in which a resolution returns writes to the  *)
(* store; and a show-level or movie update changes no record but the one    *)
(* with the unit's key in the unit's collection, and of that record only    *)
(* tmdb_id, imdb_id and the fields of the body, never the episodes.         *)

C26_UpdatesOnlyWhatIsResolved ==
    /\ [](\A u \in Units :
             (unit[u].pc = "finished" /\ unit[u].out \in {"unresolved", "raised"})
                 => /\ DocOf(u).tmdb_id = unit[u].doc.tmdb_id
                    /\ DocOf(u).imdb_id = unit[u].doc.imdb_id
                    /\ DocOf(u).body = unit[u].doc.body)
    /\ [](\A x \in EpUnits :
             (/\ unit[TvUnit(x[1])].pc \in {"wave", "finished"}
              /\ eptask[x].pc \in {"none", "done"}
              /\ eptask[x].out \in {"none", "unresolved", "raised"})
                 => tvStore[x[1]].episodes[x[2]] = unit[TvUnit(x[1])].doc.episodes[x[2]])
    /\ [][((\E u \in Units : unit[u].pc = "fetch" /\ unit'[u].pc # "fetch")
              \/ (\E x \in EpUnits : eptask[x].pc = "fetch" /\ eptask'[x].pc # "fetch"))
              => UNCHANGED <<movieStore, tvStore>>]_vars
    /\ [][\A u \in Units :
             (unit[u].pc = "update" /\ unit'[u].pc # "update")
                 => /\ \A m \in Movies :
                          movieStore'[m] # movieStore[m]
                              => /\ u[1] = "movie"
                                 /\ MovieShard(m) = ShardOf(u)
                                 /\ movieStore[m].tmdb_id = unit[u].doc.tmdb_id
                    /\ \A t \in Shows :
                          /\ tvStore'[t].episodes = tvStore[t].episodes
                          /\ tvStore'[t] # tvStore[t]
                                 => /\ u[1] = "tv"
                                    /\ ShowShard(t) = ShardOf(u)
                                    /\ tvStore[t].tmdb_id = unit[u].doc.tmdb_id]_vars

\* the first movie's resolution raised, the first show was updated at show
\* level and one of its episodes was Unresolved
C26_Witness ==
    /\ unit[MovieUnit(1)].pc = "finished"
    /\ unit[MovieUnit(1)].out = "raised"
    /\ unit[TvUnit(1)].pc = "finished"
    /\ unit[TvUnit(1)].out = "updated"
    /\ \E e \in EpNums : eptask[<<1, e>>].out = "unresolved"
    /\ \E t \in Shows : unit[TvUnit(t)].out = "unresolved"

====
